---- MODULE Spec2Model ----
(***************************************************************************)
(* qq-farm-bot: the entry point (client.js, and the second entry file      *)
(* src/unnamed/part_000), its argument parsing, and the saved-credential   *)
(* store (src/codeManager.js).                                             *)
(*                                                                         *)
(* Strings are sequences of one-character strings, so that trim(),         *)
(* startsWith('--') and parseInt() are computed and not assumed.           *)
(***************************************************************************)
EXTENDS Integers, Sequences, FiniteSets, TLC

VARIABLES
    entry,              \* which entry file runs: "client" (client.js) or "part000"
    argv,               \* process.argv.slice(2)
    env,                \* process.env: CODE, PLATFORM, QR_LOGIN, INTERVAL, FRIEND_INTERVAL
    CONFIG,             \* the shared CONFIG object: platform and the two intervals (ms)
    options,            \* main's options (code, qrLogin, useSavedCode) and usedQrLogin
    file,               \* the .farmcode file: NoFile or its content
    pc,                 \* where main and its callbacks stand
    calls,              \* the calls made to the other modules, in order
    connects,           \* the credentials passed to connect, in order, with their origin
    loginAttemptCount,  \* part_000's loginAttemptCount
    timers,             \* pending setTimeout timers of the entry point: [fn, due]
    sellLoop,           \* the periodic sell loop: [on, interval, due, passes]
    now,                \* ms since the loops were started
    exit,               \* NoExit, or how the process ended: [code, via, ws]
    hist,               \* history: what happened (scans, loads, deletes, callbacks)
    lastCall,           \* the last saveCode/deleteCode call and whether its I/O succeeded
    loaded              \* what the last loadCode call returned

vars == <<entry, argv, env, CONFIG, options, file, pc, calls, connects,
          loginAttemptCount, timers, sellLoop, now, exit, hist, lastCall, loaded>>

\* JavaScript values that are not strings, written as sequences no string of
\* single characters equals: null/undefined, true, and the absent file.
Null == <<"null">>
True == <<"true">>
NoFile == <<"ENOENT">>

----------------------------------------------------------------------------
\* Strings.

\* The characters String.prototype.trim() removes (those that occur here).
WhiteSpace == {" ", "\n"}

RECURSIVE TrimStart(_)
TrimStart(s) ==
    IF s # <<>> /\ Head(s) \in WhiteSpace THEN TrimStart(Tail(s)) ELSE s

RECURSIVE TrimEnd(_)
TrimEnd(s) ==
    IF s # <<>> /\ s[Len(s)] \in WhiteSpace THEN TrimEnd(SubSeq(s, 1, Len(s) - 1)) ELSE s

\* String.prototype.trim
Trim(s) == TrimEnd(TrimStart(s))

\* key.startsWith('--')
StartsWithDashes(s) == Len(s) >= 2 /\ s[1] = "-" /\ s[2] = "-"

\* The strings of length at most n over the alphabet a.
StringsUpTo(a, n) == UNION {[1..k -> a] : k \in 0..n}

\* The proper prefixes of s: what a write that fails midway can leave behind.
ProperPrefixes(s) == {SubSeq(s, 1, k) : k \in 0..(Len(s) - 1)}

----------------------------------------------------------------------------
\* src/codeManager.js, over the file system state `file`.
\* Each operation takes the outcome `io` of its file-system call and returns
\* [file |-> the file afterwards, ret |-> the return value, threw |-> FALSE]:
\* every fs call sits in a try/catch, so nothing propagates.

\* How fs.writeFileSync can end: done, failed at open (the file is untouched),
\* failed while writing (the file was truncated and holds a prefix).
WriteOutcomes == {"ok", "EACCES", "ENOSPC"}
\* How fs.readFileSync / fs.unlinkSync can end.
IoOutcomes == {"ok", "EIO"}

\* saveCode(code); `part` is what an ENOSPC leaves in the file.
saveCode(f, code, io, part) ==
    CASE io = "ok" -> [file |-> code, ret |-> Null, threw |-> FALSE]
      [] io = "EACCES" -> [file |-> f, ret |-> Null, threw |-> FALSE]
      [] OTHER -> [file |-> part, ret |-> Null, threw |-> FALSE]

loadCodeNoTrim(f, io) ==
    IF f # NoFile /\ io = "ok"
    THEN [file |-> f, ret |-> IF f = <<>> THEN Null ELSE f, threw |-> FALSE]
    ELSE [file |-> f, ret |-> Null, threw |-> FALSE]

\* loadCode()
loadCode(f, io) ==
    IF f # NoFile /\ io = "ok"
    THEN LET code == Trim(f)
         IN  [file |-> f, ret |-> IF code = <<>> THEN Null ELSE code, threw |-> FALSE]
    ELSE [file |-> f, ret |-> Null, threw |-> FALSE]

\* deleteCode()
deleteCode(f, io) ==
    IF f # NoFile
    THEN [file |-> IF io = "ok" THEN NoFile ELSE f, ret |-> Null, threw |-> FALSE]
    ELSE [file |-> f, ret |-> Null, threw |-> FALSE]

----------------------------------------------------------------------------
\* Numbers: parseInt yields an integer or NaN.

NaN == [nan |-> TRUE, n |-> 0]
Num(n) == [nan |-> FALSE, n |-> n]

\* if (x): neither 0 nor NaN.
TruthyNum(x) == ~x.nan /\ x.n # 0
\* if (s), for a string or undefined: a non-empty string.
TruthyStr(s) == s # Null /\ s # <<>>
\* x || 0
OrZero(x) == IF TruthyNum(x) THEN x ELSE Num(0)
\* Math.max(a, b)
Max(a, b) == IF a >= b THEN a ELSE b

DigitChars == {"0", "1", "2", "3", "4", "5", "6", "7", "8", "9"}
DigitVal(c) ==
    CASE c = "0" -> 0 [] c = "1" -> 1 [] c = "2" -> 2 [] c = "3" -> 3 [] c = "4" -> 4
      [] c = "5" -> 5 [] c = "6" -> 6 [] c = "7" -> 7 [] c = "8" -> 8 [] OTHER -> 9

\* The value of the leading decimal digits of s, having read acc so far, and how
\* many there are.
RECURSIVE LeadingDigits(_, _, _)
LeadingDigits(s, acc, count) ==
    IF s # <<>> /\ Head(s) \in DigitChars
    THEN LeadingDigits(Tail(s), acc * 10 + DigitVal(Head(s)), count + 1)
    ELSE [value |-> acc, count |-> count]

\* parseInt(s) in radix 10 (no value here starts with 0x): leading whitespace,
\* an optional sign, the leading digits; NaN without a digit, and for undefined.
ParseInt(s) ==
    IF s = Null \/ s = True THEN NaN
    ELSE LET t == TrimStart(s)
             signed == t # <<>> /\ Head(t) \in {"-", "+"}
             d == LeadingDigits(IF signed THEN Tail(t) ELSE t, 0, 0)
         IN  IF d.count = 0 THEN NaN
             ELSE Num(IF signed /\ Head(t) = "-" THEN 0 - d.value ELSE d.value)

----------------------------------------------------------------------------
\* The command line.

QQ == <<"q", "q">>
WX == <<"w", "x">>
StrTrue == <<"t", "r", "u", "e">>
OptCode == <<"-", "-", "c", "o", "d", "e">>
OptQr == <<"-", "-", "q", "r">>
OptWx == <<"-", "-", "w", "x">>
OptQq == <<"-", "-", "q", "q">>
OptInterval == <<"-", "-", "i", "n", "t", "e", "r", "v", "a", "l">>
OptFriendInterval ==
    <<"-", "-", "f", "r", "i", "e", "n", "d", "-", "i", "n", "t", "e", "r", "v", "a", "l">>
OptVerify == <<"-", "-", "v", "e", "r", "i", "f", "y">>
OptDecode == <<"-", "-", "d", "e", "c", "o", "d", "e">>

\* args.includes(x)
Includes(args, x) == \E i \in 1..Len(args) : args[i] = x

\* Map.prototype.set: a new key is appended, an existing key keeps its place.
MapSet(map, key, value) ==
    IF \E i \in 1..Len(map) : map[i].key = key
    THEN [i \in 1..Len(map) |->
            IF map[i].key = key THEN [key |-> key, value |-> value] ELSE map[i]]
    ELSE Append(map, [key |-> key, value |-> value])

\* getArgsMap's loop from args[i] on (i counts from 1 here, from 0 in the code).
RECURSIVE ArgsLoop(_, _, _)
ArgsLoop(args, i, map) ==
    IF i > Len(args) THEN map
    ELSE LET key == args[i] IN
         IF ~StartsWithDashes(key) THEN ArgsLoop(args, i + 1, MapSet(map, key, True))
         ELSE IF i >= Len(args) THEN map
         ELSE LET value == args[i + 1] IN
              IF StartsWithDashes(value) THEN ArgsLoop(args, i + 2, map)
              ELSE ArgsLoop(args, i + 2, MapSet(map, key, value))

\* getArgsMap(args)
getArgsMap(args) == ArgsLoop(args, 1, <<>>)

\* parseArgs' switch, applied to the entries of argsMap from the i-th on.
\* st holds options.code, options.qrLogin, CONFIG.platform and the two locals.
RECURSIVE ArgsSwitch(_, _, _)
ArgsSwitch(argsMap, i, st) ==
    IF i > Len(argsMap) THEN st
    ELSE LET key == argsMap[i].key
             value == argsMap[i].value
             next ==
                 CASE key = OptCode -> [st EXCEPT !.code = value]
                   [] key = OptQr -> [st EXCEPT !.qrLogin = (value = True \/ value = StrTrue)]
                   [] key = OptWx -> [st EXCEPT !.platform = WX]
                   [] key = OptQq -> [st EXCEPT !.platform = QQ]
                   [] key = OptInterval -> [st EXCEPT !.interval = ParseInt(value)]
                   [] key = OptFriendInterval ->
                        [st EXCEPT !.friend_interval = ParseInt(value)]
                   [] OTHER -> st
         IN  ArgsSwitch(argsMap, i + 1, next)

IntervalMsNoFloor(seconds, current) ==
    IF ~seconds.nan THEN seconds.n * 1000 ELSE current

\* if (interval) CONFIG.xCheckInterval = Math.max(interval, 1) * 1000
IntervalMs(seconds, current) ==
    IF TruthyNum(seconds) THEN Max(seconds.n, 1) * 1000 ELSE current

\* parseArgs(argsMap), reading the environment e and updating the CONFIG cfg:
\* [options, CONFIG]. (usedQrLogin is main's local, kept with the options.)
parseArgs(argsMap, e, cfg) ==
    LET st0 == [code |-> IF TruthyStr(e.CODE) THEN e.CODE ELSE <<>>,
                qrLogin |-> e.QR_LOGIN = StrTrue,
                platform |-> IF TruthyStr(e.PLATFORM) /\ e.PLATFORM \in {QQ, WX}
                             THEN e.PLATFORM ELSE cfg.platform,
                interval |-> OrZero(ParseInt(e.INTERVAL)),
                friend_interval |-> OrZero(ParseInt(e.FRIEND_INTERVAL))]
        st == ArgsSwitch(argsMap, 1, st0)
    IN  [options |-> [code |-> st.code, qrLogin |-> st.qrLogin, useSavedCode |-> FALSE,
                      usedQrLogin |-> FALSE],
         CONFIG |-> [platform |-> st.platform,
                     farmCheckInterval |-> IntervalMs(st.interval, cfg.farmCheckInterval),
                     friendCheckInterval |->
                         IntervalMs(st.friend_interval, cfg.friendCheckInterval)]]

\* The defaults the help text documents: QQ, 10 s and 1 s.
DefaultFarmSec == 10
DefaultFriendSec == 1
DocumentedConfig ==
    [platform |-> QQ, farmCheckInterval |-> DefaultFarmSec * 1000,
     friendCheckInterval |-> DefaultFriendSec * 1000]

----------------------------------------------------------------------------
\* The credential store on its own: any sequence of saveCode, deleteCode and
\* loadCode calls, each with any outcome of its file-system call.

MaxCodeLen == 2
CodeChars == {"a", " "}
Codes == StringsUpTo(CodeChars, MaxCodeLen)

NoCall == [op |-> "none", code |-> <<>>, ok |-> TRUE]
NotLoaded == [called |-> FALSE, ret |-> Null, io |-> "ok"]
NoHist ==
    [scans |-> 0, loads |-> 0, deletes |-> 0, succeeded |-> 0, rejected |-> 0,
     disconnects |-> 0, threw |-> FALSE, saved |-> Null, deletedAfter |-> "none"]
NoOptions ==
    [code |-> <<>>, qrLogin |-> FALSE, useSavedCode |-> FALSE, usedQrLogin |-> FALSE]
NoEnv ==
    [CODE |-> Null, PLATFORM |-> Null, QR_LOGIN |-> Null, INTERVAL |-> Null,
     FRIEND_INTERVAL |-> Null]
NoExit == [code |-> -1, via |-> "none", ws |-> FALSE]
NoSellLoop == [on |-> FALSE, interval |-> 0, due |-> 0, passes |-> 0]

\* What the store's own specification leaves alone.
entryVars == <<entry, argv, env, CONFIG, options, pc, calls, connects,
               loginAttemptCount, timers, sellLoop, now, exit>>

\* lastCall.last is the most recent saveCode/deleteCode call; lastCall.good the
\* most recent one whose file-system call succeeded.
Record(op, code, r, io) ==
    [last |-> [op |-> op, code |-> code, ok |-> io = "ok"],
     good |-> IF io = "ok" THEN [op |-> op, code |-> code, ok |-> TRUE] ELSE lastCall.good]

SaveCodeCall ==
    \E code \in Codes, io \in WriteOutcomes :
        \E part \in IF io = "ENOSPC" THEN ProperPrefixes(code) ELSE {<<>>} :
            LET r == saveCode(file, code, io, part) IN
            /\ file' = r.file
            /\ lastCall' = Record("save", code, r, io)
            /\ hist' = [hist EXCEPT !.threw = @ \/ r.threw]
            /\ loaded' = NotLoaded
            /\ UNCHANGED entryVars

DeleteCodeCall ==
    \E io \in IoOutcomes :
        LET r == deleteCode(file, io) IN
        /\ file' = r.file
        /\ lastCall' = Record("delete", <<>>, r, IF file = NoFile THEN "ok" ELSE io)
        /\ hist' = [hist EXCEPT !.threw = @ \/ r.threw, !.deletes = 1, !.deletedAfter = "call"]
        /\ loaded' = NotLoaded
        /\ UNCHANGED entryVars

LoadCodeCall ==
    \E io \in IoOutcomes :
        LET r == loadCode(file, io) IN
        /\ file' = r.file
        /\ loaded' = [called |-> TRUE, ret |-> r.ret, io |-> IF file = NoFile THEN "ok" ELSE io]
        /\ hist' = [hist EXCEPT !.threw = @ \/ r.threw]
        /\ UNCHANGED <<lastCall, entryVars>>

InitCode ==
    /\ entry = "client"
    /\ argv = <<>>
    /\ env = NoEnv
    /\ CONFIG = DocumentedConfig
    /\ options = NoOptions
    /\ pc = "codeManager"
    /\ calls = <<>>
    /\ connects = <<>>
    /\ loginAttemptCount = 0
    /\ timers = <<>>
    /\ sellLoop = NoSellLoop
    /\ now = 0
    /\ exit = NoExit
    /\ hist = NoHist
    /\ loaded = NotLoaded
    /\ \/ file = NoFile /\ lastCall = [last |-> NoCall, good |-> NoCall]
       \/ \E c \in Codes :
            /\ file = c
            /\ lastCall = [last |-> [op |-> "save", code |-> c, ok |-> TRUE],
                           good |-> [op |-> "save", code |-> c, ok |-> TRUE]]

NextCode == SaveCodeCall \/ DeleteCodeCall \/ LoadCodeCall

SpecCode == InitCode /\ [][NextCode]_vars

\* What loadCode should return after the call c: the trimmed code of a saveCode
\* whose code is non-empty after trimming, null otherwise.
ExpectedLoad(c) ==
    IF c.op = "save" /\ Trim(c.code) # <<>> THEN Trim(c.code) ELSE Null

----------------------------------------------------------------------------
\* Argument parsing on its own: every command line of at most MaxArgs arguments
\* over ArgTokens, under every environment of EnvChoices, through getArgsMap and
\* parseArgs.

MaxArgs == 3
ArgTokens ==
    {OptCode, OptWx, OptQr, OptInterval, OptFriendInterval,
     <<"c">>, <<"0">>, <<"-", "3">>, <<"7">>}
EnvChoices ==
    [CODE : {Null, <<"e">>},
     PLATFORM : {Null, WX},
     QR_LOGIN : {Null},
     INTERVAL : {Null, <<"0">>, <<"-", "3">>, <<"2">>, <<"x">>},
     FRIEND_INTERVAL : {Null, <<"0">>, <<"2">>}]

InitArgs ==
    /\ entry = "client"
    /\ argv \in StringsUpTo(ArgTokens, MaxArgs)
    /\ env \in EnvChoices
    /\ CONFIG = DocumentedConfig
    /\ options = NoOptions
    /\ file = NoFile
    /\ pc = "args"
    /\ calls = <<>>
    /\ connects = <<>>
    /\ loginAttemptCount = 0
    /\ timers = <<>>
    /\ sellLoop = NoSellLoop
    /\ now = 0
    /\ exit = NoExit
    /\ hist = NoHist
    /\ lastCall = [last |-> NoCall, good |-> NoCall]
    /\ loaded = NotLoaded

\* const argsMap = getArgsMap(args); const options = parseArgs(argsMap);
ParseCommandLine ==
    /\ pc = "args"
    /\ LET r == parseArgs(getArgsMap(argv), env, CONFIG) IN
       /\ options' = r.options
       /\ CONFIG' = r.CONFIG
    /\ pc' = "parsed"
    /\ UNCHANGED <<entry, argv, env, file, calls, connects, loginAttemptCount, timers,
                   sellLoop, now, exit, hist, lastCall, loaded>>

NextArgs == ParseCommandLine

SpecArgs == InitArgs /\ [][NextArgs]_vars

\* The values the command line gives the option opt: the arguments that follow
\* an occurrence of opt and are not options themselves.
CliValues(opt) ==
    {argv[i + 1] : i \in {j \in 1..(Len(argv) - 1) :
                            argv[j] = opt /\ ~StartsWithDashes(argv[j + 1])}}
TheValue(set) == CHOOSE v \in set : TRUE

\* The invocations of the two documented forms, with what each asks for.
Form(head, wx, n, m) ==
    head \o (IF wx THEN <<OptWx>> ELSE <<>>)
         \o (IF n = Null THEN <<>> ELSE <<OptInterval, n>>)
         \o (IF m = Null THEN <<>> ELSE <<OptFriendInterval, m>>)
DocumentedInvocations ==
    {[argv |-> Form(<<OptCode, <<"c">>>>, wx, n, m), code |-> <<"c">>, wx |-> wx,
      n |-> n, m |-> m] : wx \in BOOLEAN, n \in {Null, <<"7">>}, m \in {Null, <<"7">>}}
    \cup
    {[argv |-> Form(<<OptQr>>, FALSE, n, m), code |-> <<>>, wx |-> FALSE,
      n |-> n, m |-> m] : n \in {Null, <<"7">>}, m \in {Null, <<"7">>}}

\* C4: for an invocation of a documented form (and an empty environment), every
\* option present takes effect: the code, wx exactly when --wx is given, and the
\* intervals in seconds.
C4_DocumentedOptionsTakeEffect ==
    (pc = "parsed" /\ env = NoEnv) =>
        \A d \in DocumentedInvocations :
            d.argv = argv =>
                /\ options.code = d.code
                /\ CONFIG.platform = (IF d.wx THEN WX ELSE QQ)
                /\ CONFIG.farmCheckInterval =
                     (IF d.n = Null THEN DocumentedConfig.farmCheckInterval
                      ELSE ParseInt(d.n).n * 1000)
                /\ CONFIG.friendCheckInterval =
                     (IF d.m = Null THEN DocumentedConfig.friendCheckInterval
                      ELSE ParseInt(d.m).n * 1000)

\* Whether s is a number of seconds of at least the documented floor of 1.
IsSeconds(s) == ~ParseInt(s).nan /\ ParseInt(s).n >= 1

\* The effective interval by the documented priority, for the option opt, the
\* environment value e and the default d. Nothing is asked when the command line
\* gives opt other than once with a number of seconds >= 1, or when e is set to
\* something else than such a number.
ByPriority(actual, opt, e, d) ==
    IF Includes(argv, opt)
    THEN (Cardinality(CliValues(opt)) = 1 /\ IsSeconds(TheValue(CliValues(opt))))
            => actual = ParseInt(TheValue(CliValues(opt))).n * 1000
    ELSE IF e # Null THEN IsSeconds(e) => actual = ParseInt(e).n * 1000
    ELSE actual = d

\* C5: for the code, the platform and the two intervals, the effective value is
\* the command line's when the option is given there, else the environment
\* variable's when set, else the default.
C5_CommandLineOverEnvOverDefault ==
    pc = "parsed" =>
        /\ IF Includes(argv, OptCode)
           THEN Cardinality(CliValues(OptCode)) = 1
                    => options.code = TheValue(CliValues(OptCode))
           ELSE options.code = (IF env.CODE # Null THEN env.CODE ELSE <<>>)
        /\ IF Includes(argv, OptWx) \/ Includes(argv, OptQq)
           THEN ~(Includes(argv, OptWx) /\ Includes(argv, OptQq))
                    => CONFIG.platform = (IF Includes(argv, OptWx) THEN WX ELSE QQ)
           ELSE CONFIG.platform = (IF env.PLATFORM \in {QQ, WX} THEN env.PLATFORM
                                   ELSE DocumentedConfig.platform)
        /\ ByPriority(CONFIG.farmCheckInterval, OptInterval, env.INTERVAL,
                      DocumentedConfig.farmCheckInterval)
        /\ ByPriority(CONFIG.friendCheckInterval, OptFriendInterval, env.FRIEND_INTERVAL,
                      DocumentedConfig.friendCheckInterval)

\* The same priority for the options that take a value, on command lines where
\* every option is followed by its value (none is a flag).
C5_PriorityForValuedOptions ==
    (pc = "parsed" /\ \A i \in 1..Len(argv) : StartsWithDashes(argv[i]) =>
                            /\ i < Len(argv) /\ ~StartsWithDashes(argv[i + 1])
                            /\ (i > 1 => ~StartsWithDashes(argv[i - 1]))) =>
        /\ IF Includes(argv, OptCode)
           THEN Cardinality(CliValues(OptCode)) = 1
                    => options.code = TheValue(CliValues(OptCode))
           ELSE options.code = (IF env.CODE # Null THEN env.CODE ELSE <<>>)
        /\ ByPriority(CONFIG.farmCheckInterval, OptInterval, env.INTERVAL,
                      DocumentedConfig.farmCheckInterval)
        /\ ByPriority(CONFIG.friendCheckInterval, OptFriendInterval, env.FRIEND_INTERVAL,
                      DocumentedConfig.friendCheckInterval)

\* C6: after parseArgs both intervals are at least 1000 ms, whatever INTERVAL,
\* FRIEND_INTERVAL, --interval and --friend-interval hold, given the documented
\* defaults of 10 s and 1 s.
C6_IntervalsAtLeastOneSecond ==
    pc = "parsed" =>
        /\ CONFIG.farmCheckInterval >= 1000
        /\ CONFIG.friendCheckInterval >= 1000

\* A negative --interval was raised to the floor, and a FRIEND_INTERVAL of 0
\* left the default in place.
C6_Witness ==
    /\ pc = "parsed"
    /\ CliValues(OptInterval) = {<<"-", "3">>}
    /\ CONFIG.farmCheckInterval = 1000
    /\ env.FRIEND_INTERVAL = <<"0">>
    /\ ~Includes(argv, OptFriendInterval)
    /\ CONFIG.friendCheckInterval = DocumentedConfig.friendCheckInterval

----------------------------------------------------------------------------
\* The entry point: main() and its callbacks, in client.js and in part_000.
\* connect (src/network.js) answers each call with exactly one of the two
\* callbacks; the `disconnected` event follows a successful login only.

INITIAL_SELL_DELAY_MS == 5000
SELL_LOOP_INTERVAL_MS == 60000

\* The codes a QR scan can resolve to (an empty string counts as no code).
ScanCodes == {<<"n">>, <<>>}

\* Where the credential in opts came from.
Origin(opts) ==
    IF opts.useSavedCode THEN "saved" ELSE IF opts.usedQrLogin THEN "scanned" ELSE "explicit"

\* if (!options.code && CONFIG.platform === 'qq'): the saved code is tried
SavedCodeIsTried(opts, cfg) == ~TruthyStr(opts.code) /\ cfg.platform = QQ

\* if (!options.code && CONFIG.platform === 'qq'
\*     && (options.qrLogin || !args.includes('--code'))): a scan is needed
NeedsScan(opts, cfg, args) ==
    ~TruthyStr(opts.code) /\ cfg.platform = QQ /\ (opts.qrLogin \/ ~Includes(args, OptCode))

FriendLoopGateByFriendInterval(cfg) == cfg.friendCheckInterval > 0

\* if (CONFIG.farmCheckInterval > 0) startFriendCheckLoop()
FriendLoopGate(cfg) == cfg.farmCheckInterval > 0

\* shutdownAllModules(); part_000's SIGINT handler makes the same calls.
shutdownAllModules ==
    <<"cleanupStatusBar", "stopFarmCheckLoop", "stopFriendCheckLoop",
      "cleanupTaskSystem", "stopSellLoop", "cleanup">>

closeWithoutShutdown(ws) ==
    <<"getWs">> \o (IF ws THEN <<"ws.close">> ELSE <<>>) \o <<"process.exit">>

\* close(), when getWs() returns a socket (ws) or null.
close(ws) ==
    shutdownAllModules \o <<"getWs">> \o (IF ws THEN <<"ws.close">> ELSE <<>>)
        \o <<"process.exit">>

StartCalls == {"startFarmCheckLoop", "startFriendCheckLoop", "initTaskSystem",
               "startSellLoop", "setTimeout(debugSellFruits)", "debugSellFruits"}
StopCalls == {"stopFarmCheckLoop", "stopFriendCheckLoop", "cleanupTaskSystem",
              "stopSellLoop"}

\* The calls of onLoginSuccess after processInviteCodes has resolved.
onLoginSuccessStarts(cfg) ==
    <<"startFarmCheckLoop">>
        \o (IF FriendLoopGate(cfg) THEN <<"startFriendCheckLoop">> ELSE <<>>)
        \o <<"initTaskSystem", "setTimeout(debugSellFruits)", "startSellLoop">>

InitialSellTimersAfterCadence(t) ==
    <<[fn |-> "debugSellFruits", due |-> t + SELL_LOOP_INTERVAL_MS + INITIAL_SELL_DELAY_MS]>>

\* setTimeout(debugSellFruits, INITIAL_SELL_DELAY_MS), set at time t: the timers
\* onLoginSuccess adds.
InitialSellTimers(t) == <<[fn |-> "debugSellFruits", due |-> t + INITIAL_SELL_DELAY_MS]>>

onLoginErrorCallsStartingLoops(ws) == <<"deleteCode", "startFarmCheckLoop">> \o close(ws)

\* client.js's onLoginError: deleteCode(); close()
onLoginErrorCalls(ws) == <<"deleteCode">> \o close(ws)

onDisconnectedAsLoginError(ws) == <<"deleteCode">> \o close(ws)

\* client.js's `disconnected` listener: close()
onDisconnected(ws) == close(ws)

\* The parameter validation and what follows it up to connect(): either
\* showHelp and process.exit(1), or the status bar and connect(options.code, ...).
ValidateAndConnect(opts, log) ==
    IF ~TruthyStr(opts.code)
    THEN /\ pc' = "exited"
         /\ exit' = [code |-> 1, via |-> "noCode", ws |-> FALSE]
         /\ calls' = log \o <<"showHelp", "process.exit">>
         /\ connects' = connects
         /\ options' = opts
    ELSE /\ pc' = "authenticating"
         /\ exit' = exit
         /\ calls' = log \o <<"initStatusBar", "setStatusPlatform", "emitRuntimeHint",
                              "connect">>
         /\ connects' = Append(connects, [code |-> opts.code, origin |-> Origin(opts)])
         /\ options' = opts

\* main(), from its start to its first await after the argument parsing (the
\* QR scan) or, without a scan, to connect() or process.exit(1).
Main ==
    /\ pc = "start"
    /\ IF Includes(argv, OptVerify) \/ Includes(argv, OptDecode)
       THEN /\ pc' = "returned"
            /\ UNCHANGED <<CONFIG, options, file, calls, connects, exit, hist, loaded>>
       ELSE \E io \in IoOutcomes :
            LET r == parseArgs(getArgsMap(argv), env, CONFIG)
                tried == SavedCodeIsTried(r.options, r.CONFIG)
                ld == loadCode(file, io)
                opts == IF tried /\ ld.ret # Null
                        THEN [r.options EXCEPT !.code = ld.ret, !.useSavedCode = TRUE]
                        ELSE r.options
                log == IF tried THEN <<"loadCode">> ELSE <<>>
            IN  /\ CONFIG' = r.CONFIG
                /\ file' = file
                /\ loaded' = IF tried
                             THEN [called |-> TRUE, ret |-> ld.ret,
                                   io |-> IF file = NoFile THEN "ok" ELSE io]
                             ELSE loaded
                /\ IF NeedsScan(opts, r.CONFIG, argv)
                   THEN /\ pc' = "scanning"
                        /\ options' = opts
                        /\ calls' = log \o <<"getQQFarmCodeByScan">>
                        /\ hist' = [hist EXCEPT !.loads = IF tried THEN 1 ELSE 0,
                                                !.saved = IF tried THEN ld.ret ELSE Null,
                                                !.scans = 1]
                        /\ UNCHANGED <<connects, exit>>
                   ELSE /\ ValidateAndConnect(opts, log)
                        /\ hist' = [hist EXCEPT !.loads = IF tried THEN 1 ELSE 0,
                                                !.saved = IF tried THEN ld.ret ELSE Null]
    /\ UNCHANGED <<entry, argv, env, loginAttemptCount, timers, sellLoop, now, lastCall>>

\* The first scan resolves: the code is saved, then validated and used.
ScanResolved ==
    /\ pc = "scanning"
    /\ \E code \in ScanCodes, io \in WriteOutcomes :
         \E part \in IF io = "ENOSPC" THEN ProperPrefixes(code) \cup {<<>>} ELSE {<<>>} :
            LET r == saveCode(file, code, io, part) IN
            /\ file' = r.file
            /\ lastCall' = Record("save", code, r, io)
            /\ ValidateAndConnect([options EXCEPT !.code = code, !.usedQrLogin = TRUE],
                                  Append(calls, "saveCode"))
    /\ UNCHANGED <<entry, argv, env, CONFIG, loginAttemptCount, timers, sellLoop, now,
                   hist, loaded>>

\* The first scan fails: main() rejects and its catch ends the process.
ScanRejected ==
    /\ pc = "scanning"
    /\ pc' = "exited"
    /\ exit' = [code |-> 1, via |-> "startupError", ws |-> FALSE]
    /\ calls' = Append(calls, "process.exit")
    /\ UNCHANGED <<entry, argv, env, CONFIG, options, file, connects, loginAttemptCount,
                   timers, sellLoop, now, hist, lastCall, loaded>>

\* The backend accepts the login: onLoginSuccess runs up to its await.
LoginSucceeds ==
    /\ pc = "authenticating"
    /\ pc' = "invites"
    /\ calls' = Append(calls, "processInviteCodes")
    /\ hist' = [hist EXCEPT !.succeeded = @ + 1]
    /\ UNCHANGED <<entry, argv, env, CONFIG, options, file, connects, loginAttemptCount,
                   timers, sellLoop, now, exit, lastCall, loaded>>

\* processInviteCodes has resolved: the rest of onLoginSuccess.
InvitesDone ==
    /\ pc = "invites"
    /\ pc' = "running"
    /\ calls' = calls \o onLoginSuccessStarts(CONFIG)
    /\ now' = 0
    /\ timers' = timers \o InitialSellTimers(0)
    /\ sellLoop' = [on |-> TRUE, interval |-> SELL_LOOP_INTERVAL_MS,
                    due |-> SELL_LOOP_INTERVAL_MS, passes |-> 0]
    /\ UNCHANGED <<entry, argv, env, CONFIG, options, file, connects, loginAttemptCount,
                   exit, hist, lastCall, loaded>>

\* The backend rejects the login: onLoginError.
\* client.js: deleteCode(); close(). part_000: the saved code's first rejection
\* deletes it and sleeps before the new scan; any other rejection exits.
LoginRejected ==
    /\ pc = "authenticating"
    /\ LET rejected == connects[Len(connects)] IN
       IF entry = "client"
       THEN \E io \in IoOutcomes, ws \in BOOLEAN :
            LET r == deleteCode(file, io) IN
            /\ file' = r.file
            /\ lastCall' = Record("delete", <<>>, r, IF file = NoFile THEN "ok" ELSE io)
            /\ calls' = calls \o onLoginErrorCalls(ws)
            /\ pc' = "exited"
            /\ exit' = [code |-> 0, via |-> "loginError", ws |-> ws]
            /\ sellLoop' = [sellLoop EXCEPT !.on = FALSE]
            /\ hist' = [hist EXCEPT !.rejected = @ + 1, !.deletes = @ + 1,
                                    !.deletedAfter = rejected.origin]
            /\ UNCHANGED <<loginAttemptCount, options>>
       ELSE /\ loginAttemptCount' = loginAttemptCount + 1
            /\ IF options.useSavedCode /\ loginAttemptCount' = 1
               THEN \E io \in IoOutcomes :
                    LET r == deleteCode(file, io) IN
                    /\ file' = r.file
                    /\ lastCall' = Record("delete", <<>>, r,
                                          IF file = NoFile THEN "ok" ELSE io)
                    /\ calls' = calls \o <<"deleteCode", "sleep">>
                    /\ pc' = "errSleep"
                    /\ hist' = [hist EXCEPT !.rejected = @ + 1, !.deletes = @ + 1,
                                            !.deletedAfter = rejected.origin]
                    /\ UNCHANGED <<exit, sellLoop, options>>
               ELSE /\ calls' = Append(calls, "process.exit")
                    /\ pc' = "exited"
                    /\ exit' = [code |-> 1, via |-> "loginError", ws |-> FALSE]
                    /\ hist' = [hist EXCEPT !.rejected = @ + 1]
                    /\ UNCHANGED <<file, lastCall, sellLoop, options>>
    /\ UNCHANGED <<entry, argv, env, CONFIG, connects, timers, now, loaded>>

\* part_000: sleep(1000) is over; on QQ the new scan starts.
SleepDone ==
    /\ pc = "errSleep"
    /\ IF CONFIG.platform = QQ
       THEN /\ pc' = "rescanning"
            /\ calls' = Append(calls, "getQQFarmCodeByScan")
            /\ hist' = [hist EXCEPT !.scans = @ + 1]
       ELSE /\ pc' = "idle"
            /\ UNCHANGED <<calls, hist>>
    /\ UNCHANGED <<entry, argv, env, CONFIG, options, file, connects, loginAttemptCount,
                   timers, sellLoop, now, exit, lastCall, loaded>>

\* part_000: the new scan resolves; the code is saved and connect is called again.
RescanResolved ==
    /\ pc = "rescanning"
    /\ \E code \in ScanCodes, io \in WriteOutcomes :
         \E part \in IF io = "ENOSPC" THEN ProperPrefixes(code) \cup {<<>>} ELSE {<<>>} :
            LET r == saveCode(file, code, io, part)
                opts == [options EXCEPT !.code = code, !.useSavedCode = FALSE,
                                        !.usedQrLogin = TRUE]
            IN  /\ file' = r.file
                /\ lastCall' = Record("save", code, r, io)
                /\ options' = opts
                /\ calls' = calls \o <<"saveCode", "connect">>
                /\ connects' = Append(connects, [code |-> code, origin |-> "scanned"])
    /\ pc' = "authenticating"
    /\ UNCHANGED <<entry, argv, env, CONFIG, loginAttemptCount, timers, sellLoop, now,
                   exit, hist, loaded>>

\* part_000: the new scan fails; process.exit(1).
RescanRejected ==
    /\ pc = "rescanning"
    /\ pc' = "exited"
    /\ exit' = [code |-> 1, via |-> "rescanError", ws |-> FALSE]
    /\ calls' = Append(calls, "process.exit")
    /\ UNCHANGED <<entry, argv, env, CONFIG, options, file, connects, loginAttemptCount,
                   timers, sellLoop, now, hist, lastCall, loaded>>

\* The states in which the SIGINT handler is registered and the process lives.
Connected == {"authenticating", "invites", "running", "errSleep", "rescanning", "idle"}

\* SIGINT: close() in client.js, the same calls inline in part_000.
Sigint ==
    /\ pc \in Connected
    /\ \E ws \in BOOLEAN :
         /\ calls' = calls \o close(ws)
         /\ exit' = [code |-> 0, via |-> "SIGINT", ws |-> ws]
    /\ pc' = "exited"
    /\ sellLoop' = [sellLoop EXCEPT !.on = FALSE]
    /\ UNCHANGED <<entry, argv, env, CONFIG, options, file, connects, loginAttemptCount,
                   timers, now, hist, lastCall, loaded>>

\* The connection drops after a successful login: `disconnected` is emitted
\* (once). client.js listens and calls close(); part_000 has no listener.
Disconnected ==
    /\ pc \in {"invites", "running"}
    /\ hist.disconnects = 0
    /\ hist' = [hist EXCEPT !.disconnects = 1]
    /\ IF entry = "client"
       THEN /\ \E ws \in BOOLEAN :
                 /\ calls' = calls \o onDisconnected(ws)
                 /\ exit' = [code |-> 0, via |-> "disconnected", ws |-> ws]
            /\ pc' = "exited"
            /\ sellLoop' = [sellLoop EXCEPT !.on = FALSE]
       ELSE UNCHANGED <<calls, exit, pc, sellLoop>>
    /\ UNCHANGED <<entry, argv, env, CONFIG, options, file, connects, loginAttemptCount,
                   timers, now, lastCall, loaded>>

\* The pending due times: the timers' and, while it runs, the sell loop's.
DueTimes ==
    {timers[i].due : i \in 1..Len(timers)} \cup (IF sellLoop.on THEN {sellLoop.due} ELSE {})

\* s without its i-th element.
Without(s, i) == SubSeq(s, 1, i - 1) \o SubSeq(s, i + 1, Len(s))

\* The earliest timer of the entry point expires: debugSellFruits runs.
TimerFires ==
    /\ pc = "running"
    /\ \E i \in 1..Len(timers) :
         /\ \A d \in DueTimes : timers[i].due <= d
         /\ now' = timers[i].due
         /\ timers' = Without(timers, i)
         /\ calls' = Append(calls, timers[i].fn)
    /\ UNCHANGED <<entry, argv, env, CONFIG, options, file, pc, connects,
                   loginAttemptCount, sellLoop, exit, hist, lastCall, loaded>>

MaxSellPasses == 2

\* The sell loop's cadence elapses: a periodic sell pass, and the next is due
\* one interval later.
SellLoopPass ==
    /\ pc = "running"
    /\ sellLoop.on
    /\ sellLoop.passes < MaxSellPasses
    /\ \A d \in DueTimes : sellLoop.due <= d
    /\ now' = sellLoop.due
    /\ sellLoop' = [sellLoop EXCEPT !.due = @ + sellLoop.interval, !.passes = @ + 1]
    /\ calls' = Append(calls, "sellPass")
    /\ UNCHANGED <<entry, argv, env, CONFIG, options, file, pc, connects,
                   loginAttemptCount, timers, exit, hist, lastCall, loaded>>

\* The command lines and environments the entry point is started with.
MaxMainArgs == 3
MainTokens == {OptCode, OptQr, <<"c">>}
MainEnvChoices ==
    [CODE : {Null, <<"e">>},
     PLATFORM : {Null, WX},
     QR_LOGIN : {Null, StrTrue},
     INTERVAL : {Null},
     FRIEND_INTERVAL : {Null}]
\* CONFIG as src/config.js leaves it: the documented defaults, or an interval
\* of 0.
ConfigDefaults ==
    {DocumentedConfig,
     [DocumentedConfig EXCEPT !.farmCheckInterval = 0],
     [DocumentedConfig EXCEPT !.friendCheckInterval = 0]}
\* The .farmcode file an earlier run left: none, a code, or blank.
SavedFiles == {NoFile, <<"s", "\n">>, <<" ">>}

Init ==
    /\ entry \in {"client", "part000"}
    /\ argv \in StringsUpTo(MainTokens, MaxMainArgs)
    /\ env \in MainEnvChoices
    /\ CONFIG \in ConfigDefaults
    /\ options = NoOptions
    /\ file \in SavedFiles
    /\ pc = "start"
    /\ calls = <<>>
    /\ connects = <<>>
    /\ loginAttemptCount = 0
    /\ timers = <<>>
    /\ sellLoop = NoSellLoop
    /\ now = 0
    /\ exit = NoExit
    /\ hist = NoHist
    /\ lastCall = [last |-> NoCall, good |-> NoCall]
    /\ loaded = NotLoaded

Next ==
    \/ Main
    \/ ScanResolved
    \/ ScanRejected
    \/ LoginSucceeds
    \/ InvitesDone
    \/ LoginRejected
    \/ SleepDone
    \/ RescanResolved
    \/ RescanRejected
    \/ Sigint
    \/ Disconnected
    \/ TimerFires
    \/ SellLoopPass

Spec == Init /\ [][Next]_vars

----------------------------------------------------------------------------
\* Properties of the entry point.

Called(fn) == \E i \in 1..Len(calls) : calls[i] = fn
Count(fn) == Cardinality({i \in 1..Len(calls) : calls[i] = fn})
EndsWith(s, t) == Len(s) >= Len(t) /\ SubSeq(s, Len(s) - Len(t) + 1, Len(s)) = t

\* C1: a rejected login made with the saved credential deletes it, scans anew,
\* saves and connects again, at most once per process; any other login failure
\* ends the process without another connect.
C1_RetryOnceAfterSavedCodeRejected ==
    /\ Len(connects) <= 2
    /\ Len(connects) = 2 =>
            /\ connects[1].origin = "saved"
            /\ connects[2].origin = "scanned"
            /\ Called("deleteCode") /\ Called("saveCode")
            /\ hist.rejected >= 1
    /\ (pc = "exited" /\ exit.via = "loginError" /\ connects[1].origin = "saved")
            => Len(connects) = 2 /\ hist.rejected = 2
    /\ (hist.rejected >= 1 /\ connects[1].origin # "saved")
            => pc = "exited" /\ Len(connects) = 1
    /\ hist.rejected = 2 => pc = "exited"

\* C2: the loops, the task system and the delayed debugSellFruits are started
\* from the login-success callback only: while no login has succeeded, none of
\* them has been called, whatever was rejected.
C2_NoStartWithoutLoginSuccess ==
    hist.succeeded = 0 =>
        /\ \A i \in 1..Len(calls) : calls[i] \notin StartCalls
        /\ timers = <<>>
        /\ ~sellLoop.on

\* A login was rejected, none succeeded, and the process has ended.
C2_Witness ==
    /\ hist.rejected >= 1 /\ hist.succeeded = 0
    /\ pc = "exited" /\ exit.via = "loginError"
    /\ \A i \in 1..Len(calls) : calls[i] \notin StartCalls

\* The explicit code of this run: the value --code is given on the command line,
\* else the CODE environment variable, else none.
Explicit ==
    IF CliValues(OptCode) # {} THEN TheValue(CliValues(OptCode))
    ELSE IF TruthyStr(env.CODE) THEN env.CODE ELSE Null

\* C3: the credential passed to connect is the explicit code whenever there is
\* one, and then the saved file is not consulted; the saved code is used only
\* without an explicit code; a scan happens only when neither yields a code;
\* without any code the process exits and connect is not called.
C3_ExplicitOverSavedOverScanned ==
    (pc \notin {"start", "returned"} /\ hist.rejected = 0) =>
        /\ Explicit # Null =>
                /\ hist.loads = 0 /\ hist.scans = 0
                /\ connects # <<>> /\ connects[1].code = Explicit
        /\ (connects # <<>> /\ connects[1].origin = "saved") => Explicit = Null
        /\ hist.scans > 0 => Explicit = Null /\ hist.saved = Null
        /\ (pc # "scanning" /\ ~TruthyStr(options.code))
                => pc = "exited" /\ connects = <<>>

\* Every option of the command line is followed by its value, and no value is
\* taken for an option.
WellFormedArgv ==
    \A i \in 1..Len(argv) :
        StartsWithDashes(argv[i]) =>
            /\ i < Len(argv) /\ ~StartsWithDashes(argv[i + 1])
            /\ (i > 1 => ~StartsWithDashes(argv[i - 1]))

\* The same precedence on the command lines getArgsMap reads as written.
C3_PrecedenceOnWellFormedArgv == WellFormedArgv => C3_ExplicitOverSavedOverScanned

\* C7: on login success the Friend-Patrol loop is started only if the own-farm
\* interval is non-zero, whatever the friend interval is; the Own-Farm loop, the
\* task system and the sell loop are started regardless.
C7_FriendLoopGatedByFarmInterval ==
    /\ Called("startFriendCheckLoop") => CONFIG.farmCheckInterval # 0
    /\ pc = "running" =>
            /\ Called("startFriendCheckLoop") <=> CONFIG.farmCheckInterval # 0
            /\ Called("startFarmCheckLoop")
            /\ Called("initTaskSystem")
            /\ Called("startSellLoop")

\* The login succeeded with an own-farm interval of 0 and a friend interval
\* above 0: everything but the Friend-Patrol loop was started.
C7_Witness ==
    /\ pc = "running"
    /\ CONFIG.farmCheckInterval = 0 /\ CONFIG.friendCheckInterval > 0
    /\ ~Called("startFriendCheckLoop")
    /\ Called("startFarmCheckLoop") /\ Called("initTaskSystem") /\ Called("startSellLoop")

StatedShutdown(ws) ==
    <<"cleanupStatusBar", "stopFarmCheckLoop", "stopFriendCheckLoop",
      "cleanupTaskSystem", "stopSellLoop", "cleanup", "getWs">>
        \o (IF ws THEN <<"ws.close">> ELSE <<>>) \o <<"process.exit">>

\* C10 (as stated): every exit of the entry point after connect was called
\* first runs the whole shutdown in order, closes the socket if there is one,
\* and only then exits; no start call follows a stop call.
C10_ShutdownBeforeEveryExit ==
    /\ (pc = "exited" /\ connects # <<>>) => EndsWith(calls, StatedShutdown(exit.ws))
    /\ \A i, j \in 1..Len(calls) :
            (i < j /\ calls[i] \in StopCalls) => calls[j] \notin StartCalls

\* C10 (amended): in client.js every exit after connect (SIGINT, the
\* `disconnected` event, a login error) runs the whole shutdown in order, closes
\* the socket if there is one, and only then exits; in part_000 the SIGINT exit
\* does the same, and the exits on a login error or a failed new scan call
\* process.exit(1) with no shutdown call; no start call follows a stop call.
C10_ShutdownBeforeExitExceptPart000LoginError ==
    /\ (pc = "exited" /\ connects # <<>>) =>
            IF entry = "client" \/ exit.via = "SIGINT"
            THEN /\ EndsWith(calls, StatedShutdown(exit.ws))
                 /\ exit.code = 0
                 /\ exit.via \in {"SIGINT", "disconnected", "loginError"}
            ELSE /\ exit.via \in {"loginError", "rescanError"}
                 /\ exit.code = 1
                 /\ calls[Len(calls)] = "process.exit"
                 /\ \A i \in 1..Len(calls) :
                        calls[i] \notin StopCalls \cup {"cleanupStatusBar", "cleanup", "ws.close"}
    /\ \A i, j \in 1..Len(calls) :
            (i < j /\ calls[i] \in StopCalls) => calls[j] \notin StartCalls

\* client.js: the loops ran, the connection dropped, and the process ended
\* through the whole shutdown and the socket's close.
C10_Witness ==
    /\ entry = "client"
    /\ pc = "exited" /\ exit.via = "disconnected" /\ exit.ws
    /\ Called("startFarmCheckLoop") /\ Called("startSellLoop")
    /\ EndsWith(calls, <<"cleanupStatusBar", "stopFarmCheckLoop", "stopFriendCheckLoop",
                         "cleanupTaskSystem", "stopSellLoop", "cleanup", "getWs",
                         "ws.close", "process.exit">>)

\* The step in which `disconnected` is emitted.
DropStep == hist'.disconnects = hist.disconnects + 1

\* What holds of every drop in both files: it follows a successful login, is the
\* only one, calls connect no further time, and leaves the saved code's file alone.
DropKeepsConnectionsAndFile ==
    /\ DropStep =>
            /\ hist.succeeded >= 1 /\ hist.disconnects = 0
            /\ connects' = connects /\ file' = file
            /\ hist'.deletes = hist.deletes /\ hist'.scans = hist.scans
    /\ hist.disconnects >= 1 => (connects' = connects /\ file' = file)

RejectStep == hist'.rejected = hist.rejected + 1
RejectedOrigin == connects[Len(connects)].origin

\* C12: the saved code's file is deleted only by the rejection of a login made
\* with the saved code; the rejection of a login made with an explicitly
\* supplied code (--code or CODE) leaves an existing file as it is.
C12_DeleteOnlyWhenSavedCodeRejected ==
    [][/\ (file # NoFile /\ file' = NoFile) => (RejectStep /\ RejectedOrigin = "saved")
       /\ (RejectStep /\ RejectedOrigin = "explicit") => file' = file]_vars

\* part_000 alone: the same statement holds of its onLoginError, which deletes
\* under options.useSavedCode only.
C12_DeleteOnlyWhenSavedCodeRejectedInPart000 ==
    [][entry = "part000" =>
        /\ (file # NoFile /\ file' = NoFile) => (RejectStep /\ RejectedOrigin = "saved")
        /\ (RejectStep /\ RejectedOrigin # "saved") =>
             (file' = file /\ hist'.deletes = hist.deletes)
        /\ (RejectStep /\ hist'.deletes = hist.deletes + 1) =>
             (options.useSavedCode /\ loginAttemptCount = 0)]_vars

====
